---- MODULE Spec2Model ----
(***************************************************************************)
(* A model of src/lib/glove/vocab_count.c: the move-to-front hash table    *)
(* that counts tokens, the drain of the table into the vocab array, the    *)
(* two qsort passes and the emission loop of get_counts.                   *)
(*                                                                         *)
(* Strings are sequences of bytes (0..255) without the terminating NUL.    *)
(* A 32-bit unsigned value is kept as a pair <<hi, lo>> of 16-bit halves,  *)
(* so that the arithmetic of bitwisehash keeps its width.                  *)
(***************************************************************************)
EXTENDS Integers, Sequences, FiniteSets

(***************************************************************************)
(* Program constants.                                                      *)
(***************************************************************************)
MAX_STRING_LENGTH == 1000
TSIZE == 1048576
SEED == 1159241
InitialVocabSize == 12500
VocabSizeStep == 2500

(***************************************************************************)
(* Bounds of the model.                                                    *)
(***************************************************************************)
MaxTokens == 4
MaxVocabArg == 2
MaxMinCount == 2

VARIABLES
    pc,               \* position in vocab_count / get_counts
    charSigned,       \* the build: is plain char a signed type
    logOK,            \* fopen(log_file, "w") returned non-NULL
    fidOK,            \* fopen(corpus_file, "rb") returned non-NULL
    foutOK,           \* fopen(output_file, "wb") returned non-NULL
    corpus,           \* the bytes of the corpus file
    fid,              \* the bytes of the corpus not yet read
    max_vocab_count,  \* argument of vocab_count
    min_word_count,   \* argument of vocab_count
    max_vocab,        \* global
    min_count,        \* global
    vocab_hash,       \* the hash table: bucket index -> chain, NULL buckets left out
    i,                \* token counter, then index of the emission loop
    j,                \* number of records migrated
    vocab_size,       \* allocated length of vocab
    vocab,            \* the array of VOCAB
    fout,             \* the lines written to the output file, as (word, count)
    observed          \* history: the arguments of the hashinsert calls so far

vars == <<pc, charSigned, logOK, fidOK, foutOK, corpus, fid, max_vocab_count,
          min_word_count, max_vocab, min_count, vocab_hash, i, j, vocab_size,
          vocab, fout, observed>>

(***************************************************************************)
(* char: the value of a byte read through a plain char.                    *)
(***************************************************************************)
CharVal(b) == IF charSigned /\ b >= 128 THEN b - 256 ELSE b

\* s as a C string ends at its first NUL byte
CStr(s) ==
    LET nul == {k \in 1..Len(s) : s[k] = 0}
    IN  IF nul = {} THEN s
        ELSE SubSeq(s, 1, (CHOOSE k \in nul : \A m \in nul : k <= m) - 1)

\* the char at 1-based position k of a C string, the terminator included
CharAt(s, k) == IF k <= Len(s) THEN CharVal(s[k]) ELSE 0

scmp(s1, s2) ==
    LET stop == {k \in 1..(Len(s1) + 1) :
                    CharAt(s1, k) = 0 \/ CharAt(s1, k) /= CharAt(s2, k)}
        k == CHOOSE k \in stop : \A m \in stop : k <= m
    IN  CharAt(s1, k) - CharAt(s2, k)

CompareVocabTie(a, b) ==
    LET c == b.count - a.count
    IN  IF c /= 0 THEN (IF c > 0 THEN 1 ELSE -1) ELSE scmp(a.word, b.word)

\* CompareVocab with the sign of the difference taken the wrong way round
CompareVocabAscending(a, b) ==
    LET c == b.count - a.count
    IN  IF c /= 0 THEN (IF c > 0 THEN -1 ELSE 1) ELSE 0

CompareVocab(a, b) ==
    LET c == b.count - a.count
    IN  IF c /= 0 THEN (IF c > 0 THEN 1 ELSE -1) ELSE 0

(***************************************************************************)
(* 32-bit unsigned arithmetic on <<hi, lo>>.                               *)
(***************************************************************************)
U32(n) == <<n \div 65536, n % 65536>>

RECURSIVE XorBits(_, _, _)
XorBits(a, b, n) ==
    IF n = 0 THEN 0
    ELSE ((a + b) % 2) + 2 * XorBits(a \div 2, b \div 2, n - 1)

\* a ^ b on bytes, tabulated
XorByte == [a \in 0..255 |-> [b \in 0..255 |-> XorBits(a, b, 8)]]

Xor16(a, b) ==
    XorByte[a \div 256][b \div 256] * 256 + XorByte[a % 256][b % 256]

Xor32(x, y) == <<Xor16(x[1], y[1]), Xor16(x[2], y[2])>>

Shl5(x) ==
    LET lo == x[2] * 32
    IN  <<(x[1] * 32 + lo \div 65536) % 65536, lo % 65536>>

Shr2(x) == <<x[1] \div 4, (x[2] \div 4) + (x[1] % 4) * 16384>>

\* a char converted to unsigned int
CharU32(c) == IF c >= 0 THEN <<0, c>> ELSE <<65535, 65536 + c>>

Add3(x, y, z) ==
    LET lo == x[2] + y[2] + z[2]
    IN  <<(x[1] + y[1] + z[1] + lo \div 65536) % 65536, lo % 65536>>

\* one pass of the loop body: h ^= ((h << 5) + c + (h >> 2))
HashStep(h, c) == Xor32(h, Add3(Shl5(h), CharU32(c), Shr2(h)))

\* the loop over word[lo..hi], split in halves to keep the evaluation shallow
RECURSIVE HashLoop(_, _, _, _)
HashLoop(h, word, lo, hi) ==
    IF lo > hi THEN h
    ELSE IF lo = hi THEN HashStep(h, CharVal(word[lo]))
    ELSE LET mid == (lo + hi) \div 2
             h1 == HashLoop(h, word, lo, mid)
         IN  IF h1[1] >= 0 THEN HashLoop(h1, word, mid + 1, hi) ELSE h1

bitwisehash(word, tsize, seed) ==
    LET h == HashLoop(U32(seed), word, 1, Len(word))
    IN  ((h[1] % 32768) * 65536 + h[2]) % tsize

(***************************************************************************)
(* The hash table.  A chain is the sequence of its records from the head;  *)
(* a record is [word, count], its next pointer being its successor in the  *)
(* sequence.  A bucket that is NULL is not in the domain of the table.     *)
(***************************************************************************)
Chain(ht, hval) == IF hval \in DOMAIN ht THEN ht[hval] ELSE <<>>

SetBucket(ht, hval, chain) ==
    [b \in DOMAIN ht \cup {hval} |-> IF b = hval THEN chain ELSE ht[b]]

inithashtable == <<>>

\* hashinsert with count++ moved into the move-to-front branch
hashinsertCountOnMove(ht, w) ==
    LET hval == bitwisehash(w, TSIZE, SEED)
        chain == Chain(ht, hval)
        hit == {k \in 1..Len(chain) : scmp(chain[k].word, w) = 0}
    IN  IF hit = {}
        THEN SetBucket(ht, hval, Append(chain, [word |-> w, count |-> 1]))
        ELSE LET k == CHOOSE k \in hit : \A m \in hit : k <= m
                 htmp == [chain[k] EXCEPT !.count = @ + 1]
             IN  IF k = 1
                 THEN ht
                 ELSE SetBucket(ht, hval,
                          <<htmp>> \o SubSeq(chain, 1, k - 1)
                                   \o SubSeq(chain, k + 1, Len(chain)))

\* hashinsert with a scan that looks at the head of the chain only
hashinsertHeadOnly(ht, w) ==
    LET hval == bitwisehash(w, TSIZE, SEED)
        chain == Chain(ht, hval)
    IN  IF chain /= <<>> /\ scmp(chain[1].word, w) = 0
        THEN SetBucket(ht, hval, [chain EXCEPT ![1].count = @ + 1])
        ELSE SetBucket(ht, hval, Append(chain, [word |-> w, count |-> 1]))

\* hashinsert with an unlink that cuts the chain after hprv
hashinsertCutChain(ht, w) ==
    LET hval == bitwisehash(w, TSIZE, SEED)
        chain == Chain(ht, hval)
        hit == {k \in 1..Len(chain) : scmp(chain[k].word, w) = 0}
    IN  IF hit = {}
        THEN SetBucket(ht, hval, Append(chain, [word |-> w, count |-> 1]))
        ELSE LET k == CHOOSE k \in hit : \A m \in hit : k <= m
                 htmp == [chain[k] EXCEPT !.count = @ + 1]
             IN  IF k = 1
                 THEN SetBucket(ht, hval, [chain EXCEPT ![1] = htmp])
                 ELSE SetBucket(ht, hval, <<htmp>> \o SubSeq(chain, 1, k - 1))

\* hashinsert that exchanges the record found with the head of the chain
hashinsertSwapHead(ht, w) ==
    LET hval == bitwisehash(w, TSIZE, SEED)
        chain == Chain(ht, hval)
        hit == {k \in 1..Len(chain) : scmp(chain[k].word, w) = 0}
    IN  IF hit = {}
        THEN SetBucket(ht, hval, Append(chain, [word |-> w, count |-> 1]))
        ELSE LET k == CHOOSE k \in hit : \A m \in hit : k <= m
                 htmp == [chain[k] EXCEPT !.count = @ + 1]
             IN  SetBucket(ht, hval,
                     [[chain EXCEPT ![k] = chain[1]] EXCEPT ![1] = htmp])

hashinsert(ht, w) ==
    LET hval == bitwisehash(w, TSIZE, SEED)
        chain == Chain(ht, hval)
        hit == {k \in 1..Len(chain) : scmp(chain[k].word, w) = 0}
    IN  IF hit = {}
        THEN SetBucket(ht, hval, Append(chain, [word |-> w, count |-> 1]))
        ELSE LET k == CHOOSE k \in hit : \A m \in hit : k <= m
                 htmp == [chain[k] EXCEPT !.count = @ + 1]
             IN  IF k = 1
                 THEN SetBucket(ht, hval, [chain EXCEPT ![1] = htmp])
                 ELSE SetBucket(ht, hval,
                          <<htmp>> \o SubSeq(chain, 1, k - 1)
                                   \o SubSeq(chain, k + 1, Len(chain)))

(***************************************************************************)
(* fscanf(fid, "%1000s", str): skip white space, then store at most width  *)
(* bytes that are not white space.  EOF when the input ends first.         *)
(***************************************************************************)
EOF == -1

IsSpace(b) == b \in {9, 10, 11, 12, 13, 32}

fscanf(stream, width) ==
    LET n == Len(stream)
        nonws == {k \in 1..n : ~IsSpace(stream[k])}
    IN  IF nonws = {}
        THEN [ret |-> EOF, str |-> <<>>, rest |-> <<>>]
        ELSE LET start == CHOOSE k \in nonws : \A m \in nonws : k <= m
                 ws == {k \in start..n : IsSpace(stream[k])}
                 stop == IF ws = {} THEN n + 1
                         ELSE CHOOSE k \in ws : \A m \in ws : k <= m
                 end == IF stop < start + width THEN stop ELSE start + width
             IN  [ret |-> 1,
                  str |-> SubSeq(stream, start, end - 1),
                  rest |-> SubSeq(stream, end, n)]

(***************************************************************************)
(* The migration of the table to the array, bucket by bucket.              *)
(***************************************************************************)
RECURSIVE Migrate(_, _)
Migrate(ht, buckets) ==
    IF buckets = {} THEN <<>>
    ELSE LET b == CHOOSE b \in buckets : \A c \in buckets : b <= c
         IN  ht[b] \o Migrate(ht, buckets \ {b})

\* vocab_size after n records were stored: it grows whenever j reaches it
GrownSize(n) ==
    IF n < InitialVocabSize THEN InitialVocabSize
    ELSE InitialVocabSize
           + VocabSizeStep * ((n - InitialVocabSize) \div VocabSizeStep + 1)

(***************************************************************************)
(* qsort(base, n, compar): the arrays qsort may leave behind.  The first n *)
(* elements are permuted so that no element compares greater than a later  *)
(* one; the order of elements that compare equal is unspecified.           *)
(***************************************************************************)
Perms(n) == {p \in [1..n -> 1..n] : \A a, b \in 1..n : a /= b => p[a] /= p[b]}

\* the call through the function pointer compar
Compar(compar, a, b) ==
    IF compar = "CompareVocabTie" THEN CompareVocabTie(a, b) ELSE CompareVocab(a, b)

qsort(base, n, compar) ==
    {s \in {[k \in 1..Len(base) |-> IF k <= n THEN base[p[k]] ELSE base[k]] :
                p \in Perms(n)} :
        \A a, b \in 1..n : a < b => Compar(compar, s[a], s[b]) <= 0}

\* line 159: is the size limit applied
SizeLimited(mv, n) == mv > 0 /\ mv < n

\* the emission loop running over all j entries of the array
EmitBoundAll(mv, n) == n

\* line 166: the bound of the emission loop
EmitBound(mv, n) == mv

\* the cutoff with <= for <
BelowOrAtMinCount(e, mc) == e.count <= mc

\* line 167: the minimum frequency cutoff
BelowMinCount(e, mc) == e.count < mc

(***************************************************************************)
(* The corpora of the model: up to MaxTokens words separated by a blank    *)
(* and ended by a newline, and corpora with runs of MAX_STRING_LENGTH      *)
(* bytes and more.  The first three words share bucket 550930; the fourth  *)
(* is a byte above 127.                                                    *)
(***************************************************************************)
Words == << <<100, 118>>, <<119, 122>>, <<102, 116, 105, 107>>, <<200>> >>

RECURSIVE Cat(_, _)
Cat(ts, k) ==
    IF k > Len(ts) THEN <<>>
    ELSE Words[ts[k]] \o <<(IF k = Len(ts) THEN 10 ELSE 32)>> \o Cat(ts, k + 1)

Rep(b, n) == [k \in 1..n |-> b]

LongCorpora ==
    { Rep(97, MAX_STRING_LENGTH) \o <<10>>,
      Rep(97, MAX_STRING_LENGTH + 1),
      Rep(97, 2 * MAX_STRING_LENGTH) \o <<10>>,
      Rep(97, MAX_STRING_LENGTH) \o <<98, 32>> \o Rep(97, MAX_STRING_LENGTH) \o <<99, 10>> }

\* counts 3, 2, 1 and counts 3, 2, 2, 1: entries above, at and below a size limit
RankCorpora ==
    { Cat(<<1, 1, 1, 2, 2, 3>>, 1),
      Cat(<<1, 2, 3, 4, 1, 2, 3, 1>>, 1) }

Corpora ==
    {Cat(ts, 1) : ts \in UNION {[1..n -> 1..Len(Words)] : n \in 0..MaxTokens}}
        \cup LongCorpora \cup RankCorpora

(***************************************************************************)
(* The program.                                                            *)
(***************************************************************************)
Init ==
    /\ pc = "start"
    /\ charSigned \in BOOLEAN
    /\ logOK = FALSE /\ fidOK = FALSE /\ foutOK = FALSE
    /\ corpus \in Corpora
    /\ fid = <<>>
    /\ max_vocab_count \in 0..MaxVocabArg
    /\ min_word_count \in 1..MaxMinCount
    /\ max_vocab = 0
    /\ min_count = 1
    /\ vocab_hash = <<>>
    /\ i = 0 /\ j = 0 /\ vocab_size = 0
    /\ vocab = <<>>
    /\ fout = <<>>
    /\ observed = <<>>

\* vocab_count: open the log file or exit(1); set the globals
vocab_count ==
    /\ pc = "start"
    /\ \E lg \in BOOLEAN :
          /\ logOK' = lg
          /\ IF lg
             THEN /\ max_vocab' = max_vocab_count
                  /\ min_count' = min_word_count
                  /\ pc' = "get_counts"
             ELSE /\ pc' = "exit"
                  /\ UNCHANGED <<max_vocab, min_count>>
    /\ UNCHANGED <<charSigned, fidOK, foutOK, corpus, fid, max_vocab_count,
                   min_word_count, vocab_hash, i, j, vocab_size, vocab, fout,
                   observed>>

\* get_counts, lines 127-138: the locals, the table and the two fopen calls
get_counts ==
    /\ pc = "get_counts"
    /\ i' = 0 /\ j' = 0 /\ vocab_size' = InitialVocabSize
    /\ vocab_hash' = inithashtable
    /\ \E fi, fo \in BOOLEAN :
          /\ fidOK' = fi
          /\ foutOK' = fo
          /\ fid' = IF fi THEN corpus ELSE <<>>
    /\ fout' = <<>>
    /\ pc' = "scan"
    /\ UNCHANGED <<charSigned, logOK, corpus, max_vocab_count, min_word_count,
                   max_vocab, min_count, vocab, observed>>

\* lines 139-142, one pass of the loop: a token is read and inserted
ReadToken ==
    /\ pc = "scan"
    /\ fidOK
    /\ LET r == fscanf(fid, MAX_STRING_LENGTH)
       IN  /\ r.ret /= EOF
           /\ vocab_hash' = hashinsert(vocab_hash, CStr(r.str))
           /\ observed' = Append(observed, CStr(r.str))
           /\ fid' = r.rest
           /\ i' = i + 1
    /\ UNCHANGED <<pc, charSigned, logOK, fidOK, foutOK, corpus, max_vocab_count,
                   min_word_count, max_vocab, min_count, j, vocab_size, vocab,
                   fout>>

\* line 139: fscanf returns EOF and the loop ends
ReadEOF ==
    /\ pc = "scan"
    /\ fidOK
    /\ LET r == fscanf(fid, MAX_STRING_LENGTH)
       IN  /\ r.ret = EOF
           /\ fid' = r.rest
    /\ pc' = "migrate"
    /\ UNCHANGED <<charSigned, logOK, fidOK, foutOK, corpus, max_vocab_count,
                   min_word_count, max_vocab, min_count, vocab_hash, i, j,
                   vocab_size, vocab, fout, observed>>

\* line 139 with fid = NULL: undefined; the process dies or the call fails
ReadNull ==
    /\ pc = "scan"
    /\ ~fidOK
    /\ pc' \in {"crashed", "migrate"}
    /\ UNCHANGED <<charSigned, logOK, fidOK, foutOK, corpus, fid, max_vocab_count,
                   min_word_count, max_vocab, min_count, vocab_hash, i, j,
                   vocab_size, vocab, fout, observed>>

\* lines 144-158: the records of every chain are copied to the array
MigrateVocab ==
    /\ pc = "migrate"
    /\ vocab' = Migrate(vocab_hash, DOMAIN vocab_hash)
    /\ j' = Len(vocab')
    /\ vocab_size' = GrownSize(j')
    /\ i' = TSIZE
    /\ pc' = "limit"
    /\ UNCHANGED <<charSigned, logOK, fidOK, foutOK, corpus, fid, max_vocab_count,
                   min_word_count, max_vocab, min_count, vocab_hash, fout,
                   observed>>

\* lines 159-163: sort all of vocab without tie-break, or lift the limit
PreSort ==
    /\ pc = "limit"
    /\ IF SizeLimited(max_vocab, j)
       THEN /\ vocab' \in qsort(vocab, j, "CompareVocab")
            /\ UNCHANGED max_vocab
       ELSE /\ max_vocab' = j
            /\ UNCHANGED vocab
    /\ pc' = "sort"
    /\ UNCHANGED <<charSigned, logOK, fidOK, foutOK, corpus, fid, max_vocab_count,
                   min_word_count, min_count, vocab_hash, i, j, vocab_size, fout,
                   observed>>

\* line 164: sort the first max_vocab entries, ties broken by scmp
FinalSort ==
    /\ pc = "sort"
    /\ vocab' \in qsort(vocab, max_vocab, "CompareVocabTie")
    /\ i' = 0
    /\ pc' = "emit"
    /\ UNCHANGED <<charSigned, logOK, fidOK, foutOK, corpus, fid, max_vocab_count,
                   min_word_count, max_vocab, min_count, vocab_hash, j, vocab_size,
                   fout, observed>>

\* lines 166-172, one pass of the loop that writes a line.
\* With fout = NULL the fprintf is undefined: the process dies or nothing is written.
EmitEntry ==
    /\ pc = "emit"
    /\ i < EmitBound(max_vocab, j)
    /\ ~BelowMinCount(vocab[i + 1], min_count)
    /\ \/ /\ foutOK
          /\ fout' = Append(fout, vocab[i + 1])
          /\ i' = i + 1
          /\ pc' = pc
       \/ /\ ~foutOK
          /\ \/ pc' = "crashed" /\ i' = i
             \/ pc' = pc /\ i' = i + 1
          /\ fout' = fout
    /\ UNCHANGED <<charSigned, logOK, fidOK, foutOK, corpus, fid, max_vocab_count,
                   min_word_count, max_vocab, min_count, vocab_hash, j, vocab_size,
                   vocab, observed>>

\* lines 167-170: the first entry below min_count ends the loop
EmitBreak ==
    /\ pc = "emit"
    /\ i < EmitBound(max_vocab, j)
    /\ BelowMinCount(vocab[i + 1], min_count)
    /\ pc' = "close"
    /\ UNCHANGED <<charSigned, logOK, fidOK, foutOK, corpus, fid, max_vocab_count,
                   min_word_count, max_vocab, min_count, vocab_hash, i, j,
                   vocab_size, vocab, fout, observed>>

\* line 166: the loop ends at i = max_vocab
EmitEnd ==
    /\ pc = "emit"
    /\ ~(i < EmitBound(max_vocab, j))
    /\ pc' = "close"
    /\ UNCHANGED <<charSigned, logOK, fidOK, foutOK, corpus, fid, max_vocab_count,
                   min_word_count, max_vocab, min_count, vocab_hash, i, j,
                   vocab_size, vocab, fout, observed>>

\* lines 173-178: fclose(fout), undefined when fout = NULL; return 0
Close ==
    /\ pc = "close"
    /\ IF foutOK THEN pc' = "done" ELSE pc' \in {"crashed", "done"}
    /\ UNCHANGED <<charSigned, logOK, fidOK, foutOK, corpus, fid, max_vocab_count,
                   min_word_count, max_vocab, min_count, vocab_hash, i, j,
                   vocab_size, vocab, fout, observed>>

Next ==
    \/ vocab_count
    \/ get_counts
    \/ ReadToken
    \/ ReadEOF
    \/ ReadNull
    \/ MigrateVocab
    \/ PreSort
    \/ FinalSort
    \/ EmitEntry
    \/ EmitBreak
    \/ EmitEnd
    \/ Close

Spec == Init /\ [][Next]_vars

\* the runs with no size limit, for the properties of the counting table
InitTable == Init /\ max_vocab_count = 0 /\ min_word_count = MaxMinCount

SpecTable == InitTable /\ [][Next]_vars

(***************************************************************************)
(* Views of the state used by the properties.                              *)
(***************************************************************************)
\* the places of the records of the table: <<bucket, position in the chain>>
Places(ht) == UNION {{<<b, k>> : k \in 1..Len(ht[b])} : b \in DOMAIN ht}

RecordAt(ht, pl) == ht[pl[1]][pl[2]]

RECURSIVE SumOver(_, _)
SumOver(ht, places) ==
    IF places = {} THEN 0
    ELSE LET pl == CHOOSE x \in places : TRUE
         IN  RecordAt(ht, pl).count + SumOver(ht, places \ {pl})

\* the table as a map: the sum of the counts of the records that hold w
CountOf(ht, w) == SumOver(ht, {pl \in Places(ht) : RecordAt(ht, pl).word = w})

TableWords(ht) == {RecordAt(ht, pl).word : pl \in Places(ht)}

Occurrences(seq, w) == Cardinality({k \in 1..Len(seq) : seq[k] = w})

Range(seq) == {seq[k] : k \in 1..Len(seq)}

\* byte-wise lexicographic order: bytes compare as 0..255
ByteLess(s1, s2) ==
    \E k \in 1..(Len(s2)) :
        /\ \A m \in 1..(k - 1) : m <= Len(s1) /\ s1[m] = s2[m]
        /\ (k > Len(s1) \/ s1[k] < s2[k])

(***************************************************************************)
(* C2.  Conservation: after every prefix of the token sequence the counts  *)
(* of the records of the table sum to the number of tokens read, which is  *)
(* the number of hashinsert calls.                                         *)
(***************************************************************************)
Conservation ==
    /\ SumOver(vocab_hash, Places(vocab_hash)) = Len(observed)
    /\ pc \in {"scan", "migrate"} => i = Len(observed)

ConservationWitness ==
    /\ pc = "migrate" /\ fidOK
    /\ i >= 3
    /\ \E pl \in Places(vocab_hash) : RecordAt(vocab_hash, pl).count >= 2
    /\ \E b \in DOMAIN vocab_hash : Len(vocab_hash[b]) >= 2

(***************************************************************************)
(* C8.  Uniqueness: no two records of the table hold the same word; the    *)
(* array holds every record of the table exactly once; no word is written  *)
(* twice to the output.                                                    *)
(***************************************************************************)
Uniqueness ==
    /\ \A p1, p2 \in Places(vocab_hash) :
          RecordAt(vocab_hash, p1).word = RecordAt(vocab_hash, p2).word => p1 = p2
    /\ pc \in {"limit", "sort", "emit", "close", "done"} =>
          /\ j = Cardinality(Places(vocab_hash))
          /\ Len(vocab) = j
          /\ \A pl \in Places(vocab_hash) :
                Cardinality({k \in 1..j : vocab[k] = RecordAt(vocab_hash, pl)}) = 1
    /\ \A a, b \in 1..Len(fout) : fout[a].word = fout[b].word => a = b

UniquenessWitness ==
    /\ pc = "done" /\ foutOK
    /\ Len(fout) >= 2
    /\ Len(observed) > Len(fout)
    /\ \E b \in DOMAIN vocab_hash : Len(vocab_hash[b]) >= 2

(***************************************************************************)
(* C10.  Move-to-front does not change the counts: the table, as a map     *)
(* from word to count, is the map that plain insert-or-increment builds    *)
(* from the same tokens: a word is in the table iff it was observed, and   *)
(* its count is the number of times it was observed.                       *)
(***************************************************************************)
RECURSIVE PlainMap(_, _)
PlainMap(seq, n) ==
    IF n = 0 THEN <<>>
    ELSE LET m == PlainMap(seq, n - 1)
             w == seq[n]
         IN  IF w \in DOMAIN m THEN [m EXCEPT ![w] = @ + 1]
             ELSE [x \in DOMAIN m \cup {w} |-> IF x = w THEN 1 ELSE m[x]]

CountsAsPlainMap ==
    LET m == PlainMap(observed, Len(observed))
    IN  /\ TableWords(vocab_hash) = DOMAIN m
        /\ \A w \in DOMAIN m : CountOf(vocab_hash, w) = m[w]

\* a record was moved to the front of a chain of three
CountsAsPlainMapWitness ==
    /\ pc = "scan"
    /\ \E b \in DOMAIN vocab_hash :
          /\ Len(vocab_hash[b]) = 3
          /\ vocab_hash[b][1].count >= 2
          /\ vocab_hash[b][1].word /= observed[1]

(***************************************************************************)
(* C9.  The effect of one hashinsert(w) on the chains: the other buckets   *)
(* are unchanged; in the bucket of w, an absent w is appended at the tail  *)
(* with count 1; a w found at the head stays there; a w found further on   *)
(* becomes the head; in each case the other records keep their counts and  *)
(* their relative order, and the count of w grows by one.                  *)
(***************************************************************************)
ChainOrderEffect ==
    [][ (pc = "scan" /\ i' = i + 1) =>
          LET w == observed'[Len(observed')]
              hval == bitwisehash(w, TSIZE, SEED)
              old == Chain(vocab_hash, hval)
              new == Chain(vocab_hash', hval)
              at == {k \in 1..Len(old) : old[k].word = w}
          IN  /\ \A b \in (DOMAIN vocab_hash \cup DOMAIN vocab_hash') \ {hval} :
                    Chain(vocab_hash', b) = Chain(vocab_hash, b)
              /\ at = {} => new = Append(old, [word |-> w, count |-> 1])
              /\ \A k \in at :
                    /\ Len(new) = Len(old)
                    /\ new[1] = [word |-> w, count |-> old[k].count + 1]
                    /\ \A m \in 1..(k - 1) : new[m + 1] = old[m]
                    /\ \A m \in (k + 1)..Len(old) : new[m] = old[m]
      ]_vars

\* the third record of a chain of three was found and moved to the front
ChainOrderEffectWitness ==
    /\ pc = "scan"
    /\ Len(observed) = 4
    /\ observed[3] = observed[4]
    /\ \E b \in DOMAIN vocab_hash :
          /\ Len(vocab_hash[b]) = 3
          /\ vocab_hash[b][1] = [word |-> observed[4], count |-> 2]
          /\ vocab_hash[b][2] = [word |-> observed[1], count |-> 1]
          /\ vocab_hash[b][3] = [word |-> observed[2], count |-> 1]

(***************************************************************************)
(* Views of the ranking.                                                   *)
(***************************************************************************)
\* N: the number of distinct tokens
DistinctTokens == Cardinality(Range(observed))

\* the records of the table with a count of at least c
AtLeast(c) == {pl \in Places(vocab_hash) : RecordAt(vocab_hash, pl).count >= c}

\* the words of the first max_vocab entries of the array
Kept == {vocab[k].word : k \in 1..max_vocab}

Ranked == pc \in {"emit", "close", "done"}

(***************************************************************************)
(* C1.  The lines written are strictly ordered: of two adjacent lines the  *)
(* first has the greater count, or the counts are equal and the first word *)
(* is less than the second in byte-wise lexicographic order.               *)
(***************************************************************************)
OutputStrictlyOrdered ==
    \A k \in 1..(Len(fout) - 1) :
        \/ fout[k].count > fout[k + 1].count
        \/ /\ fout[k].count = fout[k + 1].count
           /\ ByteLess(fout[k].word, fout[k + 1].word)

(***************************************************************************)
(* C3.  Min-count: every line written has a count of at least min_count,   *)
(* and once the emission loop has ended, every entry of the ranked         *)
(* max_vocab entries from the position where it stopped has a count below  *)
(* min_count.                                                              *)
(***************************************************************************)
MinCountProperty ==
    /\ \A k \in 1..Len(fout) : fout[k].count >= min_word_count
    /\ pc \in {"close", "done"} =>
          \A k \in (i + 1)..max_vocab : vocab[k].count < min_word_count

\* the loop stopped early, after a line was written, with entries left over
MinCountPropertyWitness ==
    /\ pc = "done" /\ foutOK
    /\ min_word_count >= 2
    /\ Len(fout) >= 1
    /\ i < max_vocab
    /\ fout[Len(fout)].count = min_word_count

(***************************************************************************)
(* C4.  Boundary of the size limit: when 0 < max_vocab < N, after the sort *)
(* without tie-break, whatever order it gave to equal counts, every word   *)
(* with a count above the count of the entry at the boundary is among the  *)
(* first max_vocab entries and every word with a count below it is not.    *)
(* The count at the boundary does not depend on that order.                *)
(***************************************************************************)
SizeLimitBoundary ==
    (pc \in {"sort", "emit", "close", "done"}
        /\ max_vocab_count > 0 /\ max_vocab_count < j) =>
       LET bc == vocab[max_vocab_count].count
       IN  /\ max_vocab = max_vocab_count
           /\ Cardinality(AtLeast(bc)) >= max_vocab_count
           /\ Cardinality(AtLeast(bc + 1)) < max_vocab_count
           /\ \A pl \in Places(vocab_hash) :
                 LET r == RecordAt(vocab_hash, pl)
                 IN  /\ r.count > bc => r.word \in Kept
                     /\ r.count < bc => r.word \notin Kept

\* a word above the boundary count, a word below it, and a tie at the boundary
SizeLimitBoundaryWitness ==
    /\ pc = "sort"
    /\ max_vocab_count > 0 /\ max_vocab_count < j
    /\ LET bc == vocab[max_vocab_count].count
       IN  /\ \E pl \in Places(vocab_hash) : RecordAt(vocab_hash, pl).count > bc
           /\ \E pl \in Places(vocab_hash) : RecordAt(vocab_hash, pl).count < bc
           /\ \E pl \in Places(vocab_hash) :
                 /\ RecordAt(vocab_hash, pl).count = bc
                 /\ RecordAt(vocab_hash, pl).word \notin Kept

(***************************************************************************)
(* C5.  Max-size: with max_vocab > 0 at most max_vocab lines are written;  *)
(* in every case at most N lines are written; with max_vocab = 0 a run     *)
(* that ends writes every entry with a count of at least min_count.        *)
(***************************************************************************)
MaxSizeProperty ==
    /\ max_vocab_count > 0 => Len(fout) <= max_vocab_count
    /\ Len(fout) <= DistinctTokens
    /\ (pc = "done" /\ foutOK /\ max_vocab_count = 0) =>
          Len(fout) = Cardinality(AtLeast(min_word_count))

\* the size limit cut the output: entries at or above min_count were left out
MaxSizePropertyWitness ==
    /\ pc = "done" /\ foutOK
    /\ max_vocab_count > 0
    /\ Len(fout) = max_vocab_count
    /\ Cardinality(AtLeast(min_word_count)) > max_vocab_count

(***************************************************************************)
(* C6.  A run of bytes without white space that is longer than             *)
(* MAX_STRING_LENGTH is counted as one token, its first MAX_STRING_LENGTH  *)
(* bytes, the rest of the run being discarded: the tokens inserted are the *)
(* runs of the corpus, each cut to MAX_STRING_LENGTH bytes.                *)
(***************************************************************************)
RunStarts(s) ==
    {k \in 1..Len(s) : ~IsSpace(s[k]) /\ (k = 1 \/ IsSpace(s[k - 1]))}

RunEnd(s, k) ==
    LET ws == {m \in k..Len(s) : IsSpace(s[m])}
    IN  IF ws = {} THEN Len(s) ELSE (CHOOSE m \in ws : \A x \in ws : m <= x) - 1

TruncatedRuns(s) ==
    LET starts == RunStarts(s)
        nth(n) == CHOOSE k \in starts : Cardinality({m \in starts : m <= k}) = n
        cut(k) == IF RunEnd(s, k) < k + MAX_STRING_LENGTH THEN RunEnd(s, k)
                  ELSE k + MAX_STRING_LENGTH - 1
    IN  [n \in 1..Cardinality(starts) |-> SubSeq(s, nth(n), cut(nth(n)))]

LongRunIsOneToken ==
    (pc = "migrate" /\ fidOK) => observed = TruncatedRuns(corpus)

(***************************************************************************)
(* C7.  When the corpus or the output file cannot be opened, the run stops *)
(* before the streams are used: no token is read or counted, nothing is    *)
(* ranked and no line is written.                                          *)
(***************************************************************************)
OpenFailureStopsRun ==
    (logOK /\ pc \notin {"start", "get_counts"} /\ (~fidOK \/ ~foutOK)) =>
        /\ observed = <<>>
        /\ vocab_hash = <<>>
        /\ pc \notin {"sort", "emit", "close", "done"}
        /\ fout = <<>>

====
